---- MODULE Spec2Model ----
(***************************************************************************)
(* Model of src/rust_03/main.rs: a Diffie-Hellman handshake over a byte    *)
(* stream followed by a lockstep chat loop that XOR-encrypts length-framed *)
(* messages with an LCG keystream.                                         *)
(*                                                                         *)
(* Number representation.  TLC's integers are 32 bits wide, so a Rust u64  *)
(* is modelled as the sequence of its 8 bytes, least significant first,    *)
(* and a u128 as 16 such bytes.  Arithmetic on them is schoolbook limb     *)
(* arithmetic, which keeps the exact width of every intermediate value.    *)
(***************************************************************************)
EXTENDS Integers, Sequences, FiniteSets, TLC

(***************************************************************************)
(* Limb arithmetic (u64 / u128 as little-endian byte sequences)            *)
(***************************************************************************)

Min(a, b) == IF a < b THEN a ELSE b
Max(a, b) == IF a > b THEN a ELSE b

\* The function f with domain 1..n as an explicit tuple.  TLC keeps a function
\* constructor unevaluated until it is applied; concatenation makes it a tuple
\* whose elements are computed once.
AsSeq(f) == f \o <<>>

Zeros(n) == AsSeq([i \in 1..n |-> 0])

\* The w low bytes of the natural number n, least significant first.
RECURSIVE FromNat(_, _)
FromNat(n, w) == IF w = 0 THEN <<>> ELSE <<n % 256>> \o FromNat(n \div 256, w - 1)

\* x extended with zero bytes, or cut, to exactly w bytes (an `as` cast).
Resize(x, w) == AsSeq([i \in 1..w |-> IF i <= Len(x) THEN x[i] ELSE 0])

IsZero(x) == \A i \in 1..Len(x) : x[i] = 0

\* Carries and borrows are stated limb by limb rather than rippled through a
\* recursion: the carry into limb i comes from the nearest lower limb that
\* generates one, provided every limb between passes it on.

\* a < b for limb sequences of the same length: at the highest limb where they
\* differ, a is smaller.
Less(a, b, n) == \E j \in 1..n : a[j] < b[j] /\ \A l \in (j + 1)..n : a[l] = b[l]

Geq(a, b) == ~Less(a, b, Len(a))

\* a - b for limb sequences of the same length with a >= b; limb i borrows
\* when the limbs below it hold a smaller number in a than in b.
Sub(a, b) ==
    AsSeq([i \in 1..Len(a) |->
             (a[i] - b[i] - (IF Less(a, b, i - 1) THEN 1 ELSE 0) + 256) % 256])

CarryInto(a, b, i) ==
    \E j \in 1..(i - 1) :
        a[j] + b[j] > 255 /\ \A l \in (j + 1)..(i - 1) : a[l] + b[l] = 255

\* a + b for limb sequences of the same length; the carry out of the top limb
\* is dropped (wrapping addition at the width of the operands).
WrappingAdd(a, b) ==
    AsSeq([i \in 1..Len(a) |->
             (a[i] + b[i] + (IF CarryInto(a, b, i) THEN 1 ELSE 0)) % 256])

\* The number of limbs of x up to its highest nonzero limb.
SigLen(x) ==
    IF IsZero(x) THEN 0 ELSE CHOOSE n \in 1..Len(x) :
        x[n] # 0 /\ \A l \in (n + 1)..Len(x) : x[l] = 0

\* x without its high zero limbs.
Sig(x) == SubSeq(x, 1, SigLen(x))

\* Column k of the schoolbook product: the sum of a[i] * b[j] with i + j - 1 = k.
RECURSIVE ColSum(_, _, _, _, _)
ColSum(a, b, k, i, hi) ==
    IF i > hi THEN 0 ELSE (a[i] * b[k + 1 - i]) + ColSum(a, b, k, i + 1, hi)

\* x moved up by n limbs within its width (x * 256^n, wrapping).
ShlLimbs(x, n) == AsSeq([i \in 1..Len(x) |-> IF i > n THEN x[i - n] ELSE 0])

\* The exact product of a and b, Len(a) + Len(b) limbs wide.  A column sum is
\* below 2^24 for operands of up to 256 limbs; its three bytes are added in at
\* limbs k, k + 1 and k + 2.
Mul(a, b) ==
    LET n == Len(a) + Len(b)
        cols == AsSeq([k \in 1..n |->
                   ColSum(a, b, k, Max(1, k + 1 - Len(b)), Min(Len(a), k))])
        byte0 == AsSeq([k \in 1..n |-> cols[k] % 256])
        byte1 == AsSeq([k \in 1..n |-> (cols[k] \div 256) % 256])
        byte2 == AsSeq([k \in 1..n |-> cols[k] \div 65536])
    IN  WrappingAdd(WrappingAdd(byte0, ShlLimbs(byte1, 1)), ShlLimbs(byte2, 2))

\* The product of a and b at the width of a: the limbs above Len(a) are dropped
\* (wrapping multiplication).  High zero limbs contribute nothing and are
\* left out of the column sums.
WrappingMul(a, b) == Resize(Mul(Sig(a), Sig(b)), Len(a))

\* x shifted left by n bits (0 <= n <= 7) within its width.
ShlBits(x, n) ==
    LET up == 2 ^ n
        down == 2 ^ (8 - n)
    IN  AsSeq([i \in 1..Len(x) |->
                 ((x[i] * up) % 256) + (IF i > 1 THEN x[i - 1] \div down ELSE 0)])

\* x shifted right by one bit.
Shr1(x) == AsSeq([i \in 1..Len(x) |->
              (x[i] \div 2) + (IF i < Len(x) THEN (x[i + 1] % 2) * 128 ELSE 0)])

\* r reduced by conditional subtraction of shifts[k] = m * 2^(k - 1) for
\* k = hi down to lo; with r < 2 * shifts[hi] the result is below shifts[lo].
\* As in RemRange below, the steps are split in halves and r is looked at first.
RECURSIVE ReduceFrom(_, _, _, _)
ReduceFrom(r, shifts, lo, hi) ==
    IF Len(r) = 0 \/ lo > hi THEN r
    ELSE IF lo = hi
         THEN IF Geq(r, shifts[lo]) THEN Sub(r, shifts[lo]) ELSE r
    ELSE ReduceFrom(ReduceFrom(r, shifts, ((lo + hi) \div 2) + 1, hi),
                    shifts, lo, (lo + hi) \div 2)

\* Long division of the limbs x[lo..hi], one limb at a time from the top, with
\* r the remainder of the limbs above hi: the remainder so far times 256 plus
\* the next limb, reduced below m.  The range is halved rather than walked, and
\* r is looked at first so that TLC has the remainder of the upper limbs in
\* hand before it descends into the lower ones: the evaluation stays shallow.
RECURSIVE RemRange(_, _, _, _, _)
RemRange(x, lo, hi, r, shifts) ==
    IF Len(r) = 0 \/ lo > hi THEN r
    ELSE IF lo = hi
         THEN ReduceFrom(<<x[lo]>> \o SubSeq(r, 1, Len(r) - 1), shifts, 1, 8)
    ELSE RemRange(x, lo, (lo + hi) \div 2,
                  RemRange(x, ((lo + hi) \div 2) + 1, hi, r, shifts), shifts)

\* x mod m (m nonzero), Len(m) limbs wide.
Rem(x, m) ==
    LET w == SigLen(m) + 1
        d == Resize(m, w)
        shifts == <<d, ShlBits(d, 1), ShlBits(d, 2), ShlBits(d, 3),
                    ShlBits(d, 4), ShlBits(d, 5), ShlBits(d, 6), ShlBits(d, 7)>>
    IN  Resize(RemRange(x, 1, Len(x), Zeros(w), shifts), Len(m))

(***************************************************************************)
(* Diffie-Hellman parameters and modular exponentiation                    *)
(***************************************************************************)

\* 0xD87FA3E29184C7F3
DH_P == <<243, 199, 132, 145, 226, 163, 127, 216>>
DH_G == FromNat(2, 8)

One64 == FromNat(1, 8)

\* ((a as u128 * b as u128) % modulus as u128) as u64 without the widening
\* casts: the product wraps at 64 bits before it is reduced.
MulModWrapping(a, b, modulus) == Rem(WrappingMul(a, b), modulus)

\* ((a as u128 * b as u128) % modulus as u128) as u64
MulMod(a, b, modulus) ==
    LET prod == WrappingMul(Resize(a, 16), Resize(b, 16))
    IN  Resize(Rem(prod, Resize(modulus, 16)), 8)

\* One pass through the body of mod_exp's while loop on [result, base, exp].
ModExpBody(s, modulus) ==
    [result |-> IF s.exp[1] % 2 = 1 THEN MulMod(s.result, s.base, modulus)
                ELSE s.result,
     exp    |-> Shr1(s.exp),
     base   |-> MulMod(s.base, s.base, modulus)]

\* The state of mod_exp on entry to the loop.
ModExpEntry(base, exp, modulus) ==
    [result |-> One64, base |-> Rem(base, modulus), exp |-> exp]

\* while exp > 0 { body }, run for at most 2^k passes.  A u64 exponent is zero
\* after at most 64 = 2^6 right shifts, so k = 6 runs the loop to its end; the
\* passes are split in halves so that the evaluation stays shallow.
RECURSIVE ModExpLoop(_, _, _)
ModExpLoop(s, modulus, k) ==
    IF IsZero(s.exp) THEN s
    ELSE IF k = 0 THEN ModExpBody(s, modulus)
    ELSE ModExpLoop(ModExpLoop(s, modulus, k - 1), modulus, k - 1)

mod_exp(base, exp, modulus) ==
    ModExpLoop(ModExpEntry(base, exp, modulus), modulus, 6).result

(***************************************************************************)
(* Keystream generator and XOR cipher                                      *)
(***************************************************************************)

LCG_A == 1103515245
LCG_C == 12345

\* LCG::new
LCG_new(seed) == [state |-> seed]

\* The state after LCG::next: state.wrapping_mul(1103515245).wrapping_add(12345)
LCG_step(rng) ==
    [state |-> WrappingAdd(WrappingMul(rng.state, FromNat(LCG_A, 8)),
                           FromNat(LCG_C, 8))]

\* x >> 32 for a u64: the limbs move down by four places.
Shr32(x) == AsSeq([i \in 1..Len(x) |-> IF i + 4 <= Len(x) THEN x[i + 4] ELSE 0])

\* The byte LCG::next returns from the updated state: ((state >> 32) & 0xFF) as u8
LCG_byte(rng) == Shr32(rng.state)[1] % 256

\* The bytes of n calls of next() on rng, in the order they are produced.
RECURSIVE LCG_take(_, _)
LCG_take(rng, n) ==
    IF n = 0 THEN <<>>
    ELSE <<LCG_byte(LCG_step(rng))>> \o LCG_take(LCG_step(rng), n - 1)

\* The generator seeded with the length mixed into the seed.
generate_keystream_salted(seed, length) ==
    LCG_take(LCG_new(WrappingAdd(seed, FromNat(length, 8))), length)

\* (0..length).map(|_| rng.next()).collect() on a generator new from the seed.
generate_keystream(seed, length) == LCG_take(LCG_new(seed), length)

\* d ^ k on bytes, bit by bit.
RECURSIVE BitXor(_, _, _)
BitXor(d, k, bits) ==
    IF bits = 0 THEN 0
    ELSE ((d + k) % 2) + 2 * BitXor(d \div 2, k \div 2, bits - 1)

\* data.iter().zip(keystream.iter()).map(|(d, k)| d ^ k).collect(): the zip
\* stops at the shorter of the two.
xor_cipher(data, keystream) ==
    AsSeq([i \in 1..Min(Len(data), Len(keystream)) |->
             BitXor(data[i], keystream[i], 8)])

(***************************************************************************)
(* Conversions                                                             *)
(***************************************************************************)

\* u64::to_le_bytes: the 8 bytes of the value, least significant first.
u64_to_le_bytes(x) == AsSeq([i \in 1..8 |-> x[i]])

\* u64::from_le_bytes on an 8-byte buffer.
u64_from_le_bytes(buffer) == AsSeq([i \in 1..8 |-> buffer[i]])

\* The length prefix in network byte order.
u32_to_be_bytes(n) == AsSeq([i \in 1..4 |-> FromNat(n, 4)[5 - i]])

\* (n as u32).to_le_bytes() for a length n below 2^31.
u32_to_le_bytes(n) == FromNat(n, 4)

\* u32::from_le_bytes([b0, b1, b2, b3]) as usize, for lengths below 2^31.
u32_from_le_bytes(b) == b[1] + 256 * b[2] + 65536 * b[3] + 16777216 * b[4]

\* ASCII white space, the part of Unicode White_Space that the modelled
\* console lines use.
IsSpace(c) == c \in {9, 10, 11, 12, 13, 32}

\* str::trim: the line without its leading and trailing white space.
trim(line) ==
    IF \A i \in 1..Len(line) : IsSpace(line[i]) THEN <<>>
    ELSE LET first == CHOOSE i \in 1..Len(line) :
                        ~IsSpace(line[i]) /\ \A j \in 1..(i - 1) : IsSpace(line[j])
             last  == CHOOSE i \in 1..Len(line) :
                        ~IsSpace(line[i]) /\ \A j \in (i + 1)..Len(line) : IsSpace(line[j])
         IN  SubSeq(line, first, last)

\* String::from_utf8_lossy as the code points of the string it returns.  The
\* console lines of the model are ASCII: a byte below 0x80 is its own code
\* point.  A byte from 0x80 up is shown as U+FFFD (65533); the library joins
\* some runs of such bytes into one U+FFFD and decodes the runs that are valid
\* UTF-8, which no line of the model contains.
from_utf8_lossy(bytes) ==
    AsSeq([i \in 1..Len(bytes) |-> IF bytes[i] < 128 THEN bytes[i] ELSE 65533])

(***************************************************************************)
(* Bounds and input sets                                                   *)
(***************************************************************************)

\* Console lines each peer reads in a run.
MaxLines == 2
\* Private keys 64 + 1 .. 64 + MaxKey are drawn besides the key 1.
MaxKey == 1
\* Exponents 0..MaxExp and small bases 0..MaxBase are tried on mod_exp.
MaxExp == 6
MaxBase == 3
\* Seeds 0..MaxSeed are tried on generate_keystream.
MaxSeed == 2
\* Keystream lengths 0..MaxKsLen, extended by up to MaxKsExtra more bytes.
MaxKsLen == 5
MaxKsExtra == 2
\* Payload byte patterns 0..MaxPattern per frame length.
MaxPattern == 3

Peers == {"server", "client"}
Other(p) == IF p = "server" THEN "client" ELSE "server"

Zero64 == Zeros(8)
AllOnes64 == AsSeq([i \in 1..8 |-> 255])

\* rng.gen::<u64>(): the private keys the model draws.  The key 1 gives the
\* public value g and the shared secret 2; from 2^65 on the public value is a
\* power of two above the modulus, reduced to a number that fills the 64 bits.
PrivateKeys == {FromNat(1, 8)} \cup {FromNat(64 + k, 8) : k \in 1..MaxKey}

\* The lines stdin delivers: "\n", "hi\n", "ping\n" and " pong \n".
Lines == { <<10>>,
           <<104, 105, 10>>,
           <<112, 105, 110, 103, 10>>,
           <<32, 112, 111, 110, 103, 32, 10>> }

\* Option<u64>: None is the empty sequence, Some(v) the sequence of v alone.
None == <<>>
Some(v) == <<v>>
unwrap(o) == o[1]

(***************************************************************************)
(* State                                                                   *)
(***************************************************************************)

VARIABLES
    pc,        \* pc[p]: the statement of handle_client peer p is at
    dh,        \* dh[p]: the DHSession of peer p
    local,     \* local[p]: the local variables of handle_client
    stream,    \* stream[p]: bytes written to the TcpStream by the other peer
               \* and not yet read by p
    console,   \* console[p]: the last chat message printed at line 188
    hist,      \* hist[p]: counters of what p has done (not program state)
    wire,      \* wire[p]: the frames on their way to p, oldest first, each
               \* with the plain text it was made from (not program state)
    ks_used,   \* every keystream generated in the session (not program state)
    me,        \* a call of mod_exp run on its own, pass by pass
    kg,        \* a call of generate_keystream run on its own, byte by byte
    cli,       \* a run of main of src/rust_03 up to its call of run_server or
               \* run_client
    dj         \* a call of Grid::dijkstra of src/rust_04

vars == <<pc, dh, local, stream, console, hist, wire, ks_used, me, kg, cli, dj>>
protoVars == <<pc, dh, local, stream, console, hist, wire, ks_used>>

NoSession == [private_key |-> Zero64, public_key |-> Zero64, shared_secret |-> None]

NoLocals ==
    [their_public_key |-> Zero64, secret |-> Zero64, buffer |-> Zeros(8),
     input |-> <<>>, message |-> <<>>, keystream |-> <<>>, cipher |-> <<>>,
     recv_len |-> 0, recv_cipher |-> <<>>, recv_keystream |-> <<>>,
     recv_plain |-> <<>>, recv_message |-> <<>>]

NoHist ==
    [lines_read |-> 0, frames_sent |-> 0, frames_rcvd |-> 0,
     pub_written |-> FALSE, pub_read |-> FALSE, panic_at |-> "",
     rcvd_frame |-> [plain |-> <<>>, cipher |-> <<>>]]

MeIdle == [pc |-> "idle"]
KgIdle == [pc |-> "idle"]
CliIdle == [pc |-> "idle"]
DjIdle == [pc |-> "idle"]

\* Both peers at the top of handle_client on a fresh connection.
Init ==
    /\ pc = [p \in Peers |-> "new_session"]
    /\ dh = [p \in Peers |-> NoSession]
    /\ local = [p \in Peers |-> NoLocals]
    /\ stream = [p \in Peers |-> <<>>]
    /\ console = [p \in Peers |-> <<>>]
    /\ hist = [p \in Peers |-> NoHist]
    /\ wire = [p \in Peers |-> <<>>]
    /\ ks_used = {}
    /\ me = MeIdle
    /\ kg = KgIdle
    /\ cli = CliIdle
    /\ dj = DjIdle

Terminated(p) == pc[p] = "panicked"

\* The thread panics: handle_client is left and the process ends, which
\* closes its end of the stream.
Panic(p, where) ==
    /\ pc' = [pc EXCEPT ![p] = "panicked"]
    /\ hist' = [hist EXCEPT ![p].panic_at = where]

(***************************************************************************)
(* handle_client: the handshake                                            *)
(***************************************************************************)

\* A session that holds a secret from its construction on.
DHSession_new_keyed(p) ==
    /\ pc[p] = "new_session"
    /\ \E private_key \in PrivateKeys :
         dh' = [dh EXCEPT ![p] =
                  [private_key |-> private_key,
                   public_key |-> mod_exp(DH_G, private_key, DH_P),
                   shared_secret |-> Some(mod_exp(DH_G, private_key, DH_P))]]
    /\ pc' = [pc EXCEPT ![p] = "send_public"]
    /\ UNCHANGED <<local, stream, console, hist, wire, ks_used, me, kg, cli, dj>>

\* line 84, DHSession::new (lines 60-70)
DHSession_new(p) ==
    /\ pc[p] = "new_session"
    /\ \E private_key \in PrivateKeys :
         dh' = [dh EXCEPT ![p] =
                  [private_key |-> private_key,
                   public_key |-> mod_exp(DH_G, private_key, DH_P),
                   shared_secret |-> None]]
    /\ pc' = [pc EXCEPT ![p] = "send_public"]
    /\ UNCHANGED <<local, stream, console, hist, wire, ks_used, me, kg, cli, dj>>

\* The public value written only once the peer's value has arrived.
SendPublicKey_after_read(p) ==
    /\ pc[p] = "send_public"
    /\ Len(stream[p]) >= 8
    /\ stream' = [stream EXCEPT ![Other(p)] = @ \o u64_to_le_bytes(dh[p].public_key)]
    /\ hist' = [hist EXCEPT ![p].pub_written = TRUE]
    /\ pc' = [pc EXCEPT ![p] = "recv_public"]
    /\ UNCHANGED <<dh, local, console, wire, ks_used, me, kg, cli, dj>>

\* lines 99-100: stream.write_all(&dh.public_key.to_le_bytes())
SendPublicKey(p) ==
    /\ pc[p] = "send_public"
    /\ stream' = [stream EXCEPT ![Other(p)] = @ \o u64_to_le_bytes(dh[p].public_key)]
    /\ hist' = [hist EXCEPT ![p].pub_written = TRUE]
    /\ pc' = [pc EXCEPT ![p] = "recv_public"]
    /\ UNCHANGED <<dh, local, console, wire, ks_used, me, kg, cli, dj>>

\* The chat loop entered without waiting for the peer's public value.
RecvPublicKey_skipped(p) ==
    /\ pc[p] = "recv_public"
    /\ pc' = [pc EXCEPT ![p] = "read_line"]
    /\ UNCHANGED <<dh, local, stream, console, hist, wire, ks_used, me, kg, cli, dj>>

\* lines 106-108: read_exact of 8 bytes, which blocks until they are there
RecvPublicKey(p) ==
    /\ pc[p] = "recv_public"
    /\ Len(stream[p]) >= 8
    /\ LET buffer == SubSeq(stream[p], 1, 8)
       IN  local' = [local EXCEPT ![p].buffer = buffer,
                                  ![p].their_public_key = u64_from_le_bytes(buffer)]
    /\ stream' = [stream EXCEPT ![p] = SubSeq(@, 9, Len(@))]
    /\ hist' = [hist EXCEPT ![p].pub_read = TRUE]
    /\ pc' = [pc EXCEPT ![p] = "compute_secret"]
    /\ UNCHANGED <<dh, console, wire, ks_used, me, kg, cli, dj>>

\* The secret computed from the generator instead of the peer's public value.
compute_shared_secret_of_g(p) ==
    /\ pc[p] = "compute_secret"
    /\ LET secret == mod_exp(DH_G, dh[p].private_key, DH_P)
       IN  /\ dh' = [dh EXCEPT ![p].shared_secret = Some(secret)]
           /\ local' = [local EXCEPT ![p].secret = unwrap(Some(secret))]
    /\ pc' = [pc EXCEPT ![p] = "read_line"]
    /\ UNCHANGED <<stream, console, hist, wire, ks_used, me, kg, cli, dj>>

\* lines 114-115: dh.compute_shared_secret (lines 72-75) and the unwrap
compute_shared_secret(p) ==
    /\ pc[p] = "compute_secret"
    /\ LET secret == mod_exp(local[p].their_public_key, dh[p].private_key, DH_P)
       IN  /\ dh' = [dh EXCEPT ![p].shared_secret = Some(secret)]
           /\ local' = [local EXCEPT ![p].secret = unwrap(Some(secret))]
    /\ pc' = [pc EXCEPT ![p] = "read_line"]
    /\ UNCHANGED <<stream, console, hist, wire, ks_used, me, kg, cli, dj>>

(***************************************************************************)
(* handle_client: the chat loop                                            *)
(***************************************************************************)

\* The loop without the test of line 145.
ReadLine_no_skip(p) ==
    /\ pc[p] = "read_line"
    /\ hist[p].lines_read < MaxLines
    /\ \E line \in Lines :
         local' = [local EXCEPT ![p].input = line, ![p].message = trim(line)]
    /\ pc' = [pc EXCEPT ![p] = "encrypt"]
    /\ hist' = [hist EXCEPT ![p].lines_read = @ + 1]
    /\ UNCHANGED <<dh, stream, console, wire, ks_used, me, kg, cli, dj>>

\* lines 141-147: read a line, trim it, and start over when nothing is left
ReadLine(p) ==
    /\ pc[p] = "read_line"
    /\ hist[p].lines_read < MaxLines
    /\ \E line \in Lines :
         /\ local' = [local EXCEPT ![p].input = line, ![p].message = trim(line)]
         /\ pc' = [pc EXCEPT ![p] = IF trim(line) = <<>> THEN "read_line" ELSE "encrypt"]
    /\ hist' = [hist EXCEPT ![p].lines_read = @ + 1]
    /\ UNCHANGED <<dh, stream, console, wire, ks_used, me, kg, cli, dj>>

\* The generator carried on from where the previous message of this peer left
\* it, instead of started again from the secret.
Encrypt_carried(p) ==
    /\ pc[p] = "encrypt"
    /\ LET used == Len(local[p].keystream)
           length == Len(local[p].message)
           keystream == SubSeq(generate_keystream(local[p].secret, used + length),
                               used + 1, used + length)
       IN  /\ local' = [local EXCEPT
                          ![p].keystream = keystream,
                          ![p].cipher = xor_cipher(local[p].message, keystream)]
           /\ ks_used' = ks_used \cup {keystream}
           /\ IF Len(keystream) < 4
              THEN Panic(p, "print_key")
              ELSE /\ pc' = [pc EXCEPT ![p] = "send_len"]
                   /\ hist' = hist
    /\ UNCHANGED <<dh, stream, console, wire, me, kg, cli, dj>>

\* The loop without the lines that print the first four keystream bytes.
Encrypt_unprinted(p) ==
    /\ pc[p] = "encrypt"
    /\ LET keystream == generate_keystream(local[p].secret, Len(local[p].message))
       IN  /\ local' = [local EXCEPT
                          ![p].keystream = keystream,
                          ![p].cipher = xor_cipher(local[p].message, keystream)]
           /\ ks_used' = ks_used \cup {keystream}
           /\ pc' = [pc EXCEPT ![p] = "send_len"]
           /\ hist' = hist
    /\ UNCHANGED <<dh, stream, console, wire, me, kg, cli, dj>>

\* lines 150-158: the keystream, the cipher text, and the line that prints
\* keystream[0..3], which panics on a keystream shorter than 4 bytes
Encrypt(p) ==
    /\ pc[p] = "encrypt"
    /\ LET keystream == generate_keystream(local[p].secret, Len(local[p].message))
       IN  /\ local' = [local EXCEPT
                          ![p].keystream = keystream,
                          ![p].cipher = xor_cipher(local[p].message, keystream)]
           /\ ks_used' = ks_used \cup {keystream}
           /\ IF Len(keystream) < 4
              THEN Panic(p, "print_key")
              ELSE /\ pc' = [pc EXCEPT ![p] = "send_len"]
                   /\ hist' = hist
    /\ UNCHANGED <<dh, stream, console, wire, me, kg, cli, dj>>

\* lines 161-162: the 4-byte length prefix
SendLen(p) ==
    /\ pc[p] = "send_len"
    /\ stream' = [stream EXCEPT
                    ![Other(p)] = @ \o u32_to_le_bytes(Len(local[p].message))]
    /\ wire' = [wire EXCEPT
                  ![Other(p)] = Append(@, [plain |-> local[p].message,
                                           cipher |-> local[p].cipher])]
    /\ pc' = [pc EXCEPT ![p] = "send_cipher"]
    /\ UNCHANGED <<dh, local, console, hist, ks_used, me, kg, cli, dj>>

\* The loop going back to the console after the send, without the receive.
SendCipher_no_receive(p) ==
    /\ pc[p] = "send_cipher"
    /\ stream' = [stream EXCEPT ![Other(p)] = @ \o local[p].cipher]
    /\ hist' = [hist EXCEPT ![p].frames_sent = @ + 1]
    /\ pc' = [pc EXCEPT ![p] = "read_line"]
    /\ UNCHANGED <<dh, local, console, wire, ks_used, me, kg, cli, dj>>

\* line 163: the cipher text
SendCipher(p) ==
    /\ pc[p] = "send_cipher"
    /\ stream' = [stream EXCEPT ![Other(p)] = @ \o local[p].cipher]
    /\ hist' = [hist EXCEPT ![p].frames_sent = @ + 1]
    /\ pc' = [pc EXCEPT ![p] = "recv_len"]
    /\ UNCHANGED <<dh, local, console, wire, ks_used, me, kg, cli, dj>>

\* lines 169-171: read_exact of the 4 length bytes into buffer[0..4], and the
\* zeroed vector of that length
RecvLen(p) ==
    /\ pc[p] = "recv_len"
    /\ Len(stream[p]) >= 4
    /\ LET buffer == SubSeq(stream[p], 1, 4) \o SubSeq(local[p].buffer, 5, 8)
           recv_len == u32_from_le_bytes(SubSeq(buffer, 1, 4))
       IN  local' = [local EXCEPT ![p].buffer = buffer,
                                  ![p].recv_len = recv_len,
                                  ![p].recv_cipher = Zeros(recv_len)]
    /\ stream' = [stream EXCEPT ![p] = SubSeq(@, 5, Len(@))]
    /\ hist' = [hist EXCEPT ![p].rcvd_frame = Head(wire[p])]
    /\ wire' = [wire EXCEPT ![p] = Tail(@)]
    /\ pc' = [pc EXCEPT ![p] = "recv_cipher"]
    /\ UNCHANGED <<dh, console, ks_used, me, kg, cli, dj>>

\* A read that takes the newest bytes of the stream instead of the oldest.
RecvCipher_newest(p) ==
    /\ pc[p] = "recv_cipher"
    /\ Len(stream[p]) >= local[p].recv_len
    /\ local' = [local EXCEPT
                   ![p].recv_cipher = SubSeq(stream[p], Len(stream[p]) + 1 - local[p].recv_len,
                                             Len(stream[p]))]
    /\ stream' = [stream EXCEPT ![p] = SubSeq(@, 1, Len(@) - local[p].recv_len)]
    /\ hist' = [hist EXCEPT ![p].frames_rcvd = @ + 1]
    /\ pc' = [pc EXCEPT ![p] = "decrypt"]
    /\ UNCHANGED <<dh, console, wire, ks_used, me, kg, cli, dj>>

\* line 172: read_exact of recv_len bytes
RecvCipher(p) ==
    /\ pc[p] = "recv_cipher"
    /\ Len(stream[p]) >= local[p].recv_len
    /\ local' = [local EXCEPT ![p].recv_cipher = SubSeq(stream[p], 1, local[p].recv_len)]
    /\ stream' = [stream EXCEPT ![p] = SubSeq(@, local[p].recv_len + 1, Len(@))]
    /\ hist' = [hist EXCEPT ![p].frames_rcvd = @ + 1]
    /\ pc' = [pc EXCEPT ![p] = "decrypt"]
    /\ UNCHANGED <<dh, console, wire, ks_used, me, kg, cli, dj>>

\* lines 175-188: the keystream, the plain text, the line that prints
\* recv_cipher[0..3] and recv_keystream[0..3], which panics on a frame shorter
\* than 4 bytes, and the message printed at line 188
Decrypt(p) ==
    /\ pc[p] = "decrypt"
    /\ LET recv_keystream == generate_keystream(local[p].secret, local[p].recv_len)
           recv_plain == xor_cipher(local[p].recv_cipher, recv_keystream)
       IN  /\ local' = [local EXCEPT
                          ![p].recv_keystream = recv_keystream,
                          ![p].recv_plain = recv_plain,
                          ![p].recv_message = from_utf8_lossy(recv_plain)]
           /\ ks_used' = ks_used \cup {recv_keystream}
           /\ IF local[p].recv_len < 4
              THEN /\ Panic(p, "print_recv")
                   /\ console' = console
              ELSE /\ pc' = [pc EXCEPT ![p] = "read_line"]
                   /\ console' = [console EXCEPT ![p] = from_utf8_lossy(recv_plain)]
                   /\ hist' = hist
    /\ UNCHANGED <<dh, stream, wire, me, kg, cli, dj>>

(***************************************************************************)
(* The stream after the other process has ended                            *)
(***************************************************************************)

\* The bytes the read_exact that p is blocked in is waiting for.
Wanted(p) ==
    CASE pc[p] = "recv_public" -> 8
      [] pc[p] = "recv_len" -> 4
      [] pc[p] = "recv_cipher" -> local[p].recv_len
      [] OTHER -> 0

\* A read that takes the bytes that are there for the whole payload.
ReadFail_partial(p) ==
    /\ pc[p] \in {"recv_public", "recv_len", "recv_cipher"}
    /\ Terminated(Other(p))
    /\ Len(stream[p]) < Wanted(p)
    /\ stream' = [stream EXCEPT ![p] = <<>>]
    /\ IF pc[p] = "recv_cipher"
       THEN /\ local' = [local EXCEPT ![p].recv_cipher = stream[p]]
            /\ hist' = [hist EXCEPT ![p].frames_rcvd = @ + 1]
            /\ pc' = [pc EXCEPT ![p] = "decrypt"]
       ELSE /\ Panic(p, "read")
            /\ local' = local
    /\ UNCHANGED <<dh, console, wire, ks_used, me, kg, cli, dj>>

\* read_exact(..).unwrap() when the stream ends before the bytes are there:
\* UnexpectedEof, and the unwrap panics.  What was there is consumed.
ReadFail(p) ==
    /\ pc[p] \in {"recv_public", "recv_len", "recv_cipher"}
    /\ Terminated(Other(p))
    /\ Len(stream[p]) < Wanted(p)
    /\ stream' = [stream EXCEPT ![p] = <<>>]
    /\ Panic(p, "read")
    /\ UNCHANGED <<dh, local, console, wire, ks_used, me, kg, cli, dj>>

\* write_all(..).unwrap() once the other process has ended: the write may
\* still be accepted by the local socket (SendPublicKey, SendLen and
\* SendCipher stay enabled) or fail with a broken pipe or a reset connection,
\* and then the unwrap panics.
WriteFail(p) ==
    /\ pc[p] \in {"send_public", "send_len", "send_cipher"}
    /\ Terminated(Other(p))
    /\ Panic(p, "write")
    /\ UNCHANGED <<dh, local, stream, console, wire, ks_used, me, kg, cli, dj>>

Handshake(p) ==
    \/ DHSession_new(p)
    \/ SendPublicKey(p)
    \/ RecvPublicKey(p)
    \/ compute_shared_secret(p)

ChatLoop(p) ==
    \/ ReadLine(p)
    \/ Encrypt(p)
    \/ SendLen(p)
    \/ SendCipher(p)
    \/ RecvLen(p)
    \/ RecvCipher(p)
    \/ Decrypt(p)

handle_client(p) == Handshake(p) \/ ChatLoop(p) \/ ReadFail(p) \/ WriteFail(p)

Next == \E p \in Peers : handle_client(p)

Spec == Init /\ [][Next]_vars

(***************************************************************************)
(* The handshake under fair scheduling                                     *)
(***************************************************************************)

\* Peer p finishes the computation it is at: DHSession::new or
\* compute_shared_secret, which read and write nothing and whose loops end
\* (mod_exp makes at most 64 passes).
Computes(p) ==
    /\ pc[p] \in {"new_session", "compute_secret"}
    /\ pc' = [pc EXCEPT ![p] = IF pc[p] = "new_session" THEN "send_public" ELSE "read_line"]

\* Each peer is a process of its own that the operating system keeps running:
\* a computation of the handshake is finished, and a write or a read of the
\* handshake that stays possible is eventually executed.  Nothing is assumed
\* about the chat loop, whose first statement waits for the user.
FairSpec ==
    /\ Init
    /\ [][Next]_vars
    /\ \A p \in Peers :
         /\ WF_pc(Computes(p))
         /\ WF_vars(SendPublicKey(p) \/ RecvPublicKey(p))

(***************************************************************************)
(* mod_exp on its own (lines 10-22), one pass of the loop per step         *)
(***************************************************************************)

\* 2^32, the least base whose square does not fit 64 bits.
Pow2_32 == AsSeq([i \in 1..8 |-> IF i = 5 THEN 1 ELSE 0])

ArithBases ==
    {FromNat(b, 8) : b \in 0..MaxBase}
        \cup {Pow2_32, Sub(DH_P, One64), DH_P, WrappingAdd(DH_P, One64), AllOnes64}

ArithInit ==
    /\ me \in {[pc |-> "call", base |-> base, exp |-> exp,
                s |-> [result |-> Zero64, base |-> Zero64, exp |-> Zero64]] :
                  base \in ArithBases, exp \in 0..MaxExp}
    /\ kg = KgIdle
    /\ cli = CliIdle
    /\ dj = DjIdle
    /\ pc = [p \in Peers |-> "idle"]
    /\ dh = [p \in Peers |-> NoSession]
    /\ local = [p \in Peers |-> NoLocals]
    /\ stream = [p \in Peers |-> <<>>]
    /\ console = [p \in Peers |-> <<>>]
    /\ hist = [p \in Peers |-> NoHist]
    /\ wire = [p \in Peers |-> <<>>]
    /\ ks_used = {}

\* lines 11-12
ModExpEnter ==
    /\ me.pc = "call"
    /\ me' = [me EXCEPT !.pc = "loop", !.s = ModExpEntry(me.base, FromNat(me.exp, 8), DH_P)]
    /\ UNCHANGED <<protoVars, kg, cli, dj>>

\* lines 14-20
ModExpPass ==
    /\ me.pc = "loop"
    /\ ~IsZero(me.s.exp)
    /\ me' = [me EXCEPT !.s = ModExpBody(me.s, DH_P)]
    /\ UNCHANGED <<protoVars, kg, cli, dj>>

\* lines 14 and 21
ModExpReturn ==
    /\ me.pc = "loop"
    /\ IsZero(me.s.exp)
    /\ me' = [me EXCEPT !.pc = "done"]
    /\ UNCHANGED <<protoVars, kg, cli, dj>>

ArithNext == ModExpEnter \/ ModExpPass \/ ModExpReturn

ArithSpec == ArithInit /\ [][ArithNext]_vars

(***************************************************************************)
(* generate_keystream on its own (lines 25-43), one byte per step          *)
(***************************************************************************)

KsSeeds ==
    {FromNat(s, 8) : s \in 0..MaxSeed} \cup {Sub(DH_P, One64), AllOnes64}

KsInit ==
    /\ kg \in {[pc |-> "call", seed |-> seed, length |-> length,
                rng |-> LCG_new(Zero64), out |-> <<>>] :
                  seed \in KsSeeds, length \in 0..MaxKsLen}
    /\ me = MeIdle
    /\ cli = CliIdle
    /\ dj = DjIdle
    /\ pc = [p \in Peers |-> "idle"]
    /\ dh = [p \in Peers |-> NoSession]
    /\ local = [p \in Peers |-> NoLocals]
    /\ stream = [p \in Peers |-> <<>>]
    /\ console = [p \in Peers |-> <<>>]
    /\ hist = [p \in Peers |-> NoHist]
    /\ wire = [p \in Peers |-> <<>>]
    /\ ks_used = {}

\* line 26
KsNew ==
    /\ kg.pc = "call"
    /\ kg' = [kg EXCEPT !.pc = "collect", !.rng = LCG_new(kg.seed)]
    /\ UNCHANGED <<protoVars, me, cli, dj>>

\* line 27, one rng.next() (lines 39-42)
KsByte ==
    /\ kg.pc = "collect"
    /\ Len(kg.out) < kg.length
    /\ kg' = [kg EXCEPT !.rng = LCG_step(kg.rng),
                        !.out = Append(kg.out, LCG_byte(LCG_step(kg.rng)))]
    /\ UNCHANGED <<protoVars, me, cli, dj>>

\* line 27: the range 0..length is exhausted and collect() returns
KsCollect ==
    /\ kg.pc = "collect"
    /\ Len(kg.out) = kg.length
    /\ kg' = [kg EXCEPT !.pc = "done"]
    /\ UNCHANGED <<protoVars, me, cli, dj>>

KsNext == KsNew \/ KsByte \/ KsCollect

KsSpec == KsInit /\ [][KsNext]_vars

(***************************************************************************)
(* The send path and the receive path on frames of the lengths 0, 1, 255   *)
(* and 65536                                                               *)
(***************************************************************************)

FrameLengths == {0, 1, 255, 65536}

\* The payload of a given length whose bytes follow pattern k.
Payload(length, k) == AsSeq([i \in 1..length |-> (i * k + 7 * k) % 256])

Payloads == {Payload(length, k) : length \in FrameLengths, k \in 0..MaxPattern}

\* The session both peers hold when both private keys are 1.
SessionOfOnes ==
    [private_key |-> One64,
     public_key |-> mod_exp(DH_G, One64, DH_P),
     shared_secret |-> Some(mod_exp(mod_exp(DH_G, One64, DH_P), One64, DH_P))]

\* The frame "ping" makes under the secret of SessionOfOnes.
PingFrame ==
    LET message == <<112, 105, 110, 103>>
        cipher == xor_cipher(message, generate_keystream(unwrap(SessionOfOnes.shared_secret), 4))
    IN  [plain |-> message, cipher |-> cipher]

\* Peer from is at line 161 with a cipher text equal to the payload (line 161
\* reads nothing of message but its length); the other peer has sent "ping"
\* and is at line 169.
FrameInit ==
    \E from \in Peers, payload \in Payloads :
      LET to == Other(from) IN
        /\ pc = [p \in Peers |-> IF p = from THEN "send_len" ELSE "recv_len"]
        /\ dh = [p \in Peers |-> SessionOfOnes]
        /\ local = [p \in Peers |->
                      IF p = from
                      THEN [NoLocals EXCEPT
                              !.their_public_key = SessionOfOnes.public_key,
                              !.secret = unwrap(SessionOfOnes.shared_secret),
                              !.message = payload,
                              !.cipher = payload]
                      ELSE [NoLocals EXCEPT
                              !.their_public_key = SessionOfOnes.public_key,
                              !.secret = unwrap(SessionOfOnes.shared_secret),
                              !.message = PingFrame.plain,
                              !.cipher = PingFrame.cipher]]
        /\ stream = [p \in Peers |->
                       IF p = from THEN u32_to_le_bytes(4) \o PingFrame.cipher ELSE <<>>]
        /\ wire = [p \in Peers |-> IF p = from THEN <<PingFrame>> ELSE <<>>]
        /\ hist = [p \in Peers |->
                     [NoHist EXCEPT !.lines_read = 1, !.pub_written = TRUE,
                                    !.pub_read = TRUE,
                                    !.frames_sent = IF p = from THEN 0 ELSE 1]]
        /\ console = [p \in Peers |-> <<>>]
        /\ ks_used = {}
        /\ me = MeIdle
        /\ kg = KgIdle
        /\ cli = CliIdle
        /\ dj = DjIdle

FrameNext ==
    \E p \in Peers : SendLen(p) \/ SendCipher(p) \/ RecvLen(p) \/ RecvCipher(p)

FrameSpec == FrameInit /\ [][FrameNext]_vars

(***************************************************************************)
(* The receive path on a stream that ends inside a frame                   *)
(***************************************************************************)

\* The frame "helloworld" makes under the secret of SessionOfOnes.
TenFrame ==
    LET message == <<104, 101, 108, 108, 111, 119, 111, 114, 108, 100>>
        cipher == xor_cipher(message, generate_keystream(unwrap(SessionOfOnes.shared_secret), 10))
    IN  [plain |-> message, cipher |-> cipher]

\* The bytes of a frame as lines 162-163 write them.
FrameBytes(frame) == u32_to_le_bytes(Len(frame.plain)) \o frame.cipher

\* Peer to has sent "ping" and is at line 169.  The process at the other end
\* was writing a frame and has ended (killed, or cut off by the network) with
\* the first cut bytes of the frame delivered: none, a part of the length
\* prefix, the prefix and a part of the payload, or the whole frame.
TruncInit ==
    \E to \in Peers, frame \in {PingFrame, TenFrame} :
      \E cut \in 0..Len(FrameBytes(frame)) :
        /\ pc = [p \in Peers |-> IF p = to THEN "recv_len" ELSE "panicked"]
        /\ dh = [p \in Peers |-> SessionOfOnes]
        /\ local = [p \in Peers |->
                      IF p = to
                      THEN [NoLocals EXCEPT
                              !.their_public_key = SessionOfOnes.public_key,
                              !.secret = unwrap(SessionOfOnes.shared_secret),
                              !.message = PingFrame.plain,
                              !.keystream = generate_keystream(unwrap(SessionOfOnes.shared_secret), 4),
                              !.cipher = PingFrame.cipher]
                      ELSE [NoLocals EXCEPT
                              !.their_public_key = SessionOfOnes.public_key,
                              !.secret = unwrap(SessionOfOnes.shared_secret),
                              !.message = frame.plain,
                              !.keystream = generate_keystream(unwrap(SessionOfOnes.shared_secret),
                                                               Len(frame.plain)),
                              !.cipher = frame.cipher]]
        /\ stream = [p \in Peers |->
                       IF p = to THEN SubSeq(FrameBytes(frame), 1, cut)
                       ELSE FrameBytes(PingFrame)]
        /\ wire = [p \in Peers |->
                     IF p = to THEN (IF cut >= 4 THEN <<frame>> ELSE <<>>)
                     ELSE <<PingFrame>>]
        /\ hist = [p \in Peers |->
                     [NoHist EXCEPT
                        !.lines_read = 1, !.pub_written = TRUE, !.pub_read = TRUE,
                        !.frames_sent = IF p = to \/ cut = Len(FrameBytes(frame))
                                        THEN 1 ELSE 0,
                        !.panic_at = IF p = to THEN "" ELSE "killed"]]
        /\ console = [p \in Peers |-> <<>>]
        /\ ks_used = {generate_keystream(unwrap(SessionOfOnes.shared_secret), 4),
                      generate_keystream(unwrap(SessionOfOnes.shared_secret), Len(frame.plain))}
        /\ me = MeIdle
        /\ kg = KgIdle
        /\ cli = CliIdle
        /\ dj = DjIdle

TruncNext == \E p \in Peers : ChatLoop(p) \/ ReadFail(p) \/ WriteFail(p)

TruncSpec == TruncInit /\ [][TruncNext]_vars

(***************************************************************************)
(* handle_client against a remote end that is not this program: it has     *)
(* written eight bytes of its choosing, or fewer, and closed.              *)
(***************************************************************************)

\* The public values the remote end sends: 0, 1, 2, p - 1, p, p + 1 and
\* 2^64 - 1.
PeerValues ==
    { Zero64, One64, DH_G, Sub(DH_P, One64), DH_P, WrappingAdd(DH_P, One64), AllOnes64 }

AnyPeerInit ==
    \E to \in Peers, value \in PeerValues, cut \in {3, 8} :
      /\ pc = [p \in Peers |-> IF p = to THEN "new_session" ELSE "panicked"]
      /\ dh = [p \in Peers |-> NoSession]
      /\ local = [p \in Peers |-> NoLocals]
      /\ stream = [p \in Peers |->
                     IF p = to THEN SubSeq(u64_to_le_bytes(value), 1, cut) ELSE <<>>]
      /\ console = [p \in Peers |-> <<>>]
      /\ hist = [p \in Peers |->
                   IF p = to THEN NoHist
                   ELSE [NoHist EXCEPT !.pub_written = (cut = 8), !.panic_at = "killed"]]
      /\ wire = [p \in Peers |-> <<>>]
      /\ ks_used = {}
      /\ me = MeIdle
      /\ kg = KgIdle
      /\ cli = CliIdle
      /\ dj = DjIdle

AnyPeerNext ==
    \E p \in Peers :
      \/ Handshake(p)
      \/ ReadLine(p)
      \/ Encrypt(p)
      \/ SendLen(p)
      \/ SendCipher(p)
      \/ ReadFail(p)
      \/ WriteFail(p)

AnyPeerSpec == AnyPeerInit /\ [][AnyPeerNext]_vars

(***************************************************************************)
(* main, run_server and run_client (lines 192-260) up to the first         *)
(* connection.  A string is the sequence of its character codes.           *)
(***************************************************************************)

DEFAULT_PORT == 8080

IsDigit(c) == c \in 48..57

\* The value of a string of digits, or 65536 once it has passed 65535 (the
\* checked arithmetic of the parser stops there).
RECURSIVE DigitsValue(_, _)
DigitsValue(digits, acc) ==
    IF Len(digits) = 0 THEN acc
    ELSE DigitsValue(Tail(digits),
                     IF (acc * 10) + (Head(digits) - 48) > 65535 THEN 65536
                     ELSE (acc * 10) + (Head(digits) - 48))

\* str::parse::<u16>().ok(): an optional "+", then one digit or more and
\* nothing else, of a value up to 65535.
parse_u16(text) ==
    LET digits == IF Len(text) > 0 /\ Head(text) = 43 THEN Tail(text) ELSE text
    IN  IF /\ Len(digits) > 0
           /\ \A i \in 1..Len(digits) : IsDigit(digits[i])
           /\ DigitsValue(digits, 0) <= 65535
        THEN Some(DigitsValue(digits, 0))
        ELSE None

\* Option::unwrap_or
unwrap_or(o, default) == IF o = None THEN default ELSE unwrap(o)

\* addr.split(':').collect(): the pieces between the colons, of which there
\* is always one.
RECURSIVE split_colon(_, _)
split_colon(text, piece) ==
    IF Len(text) = 0 THEN <<piece>>
    ELSE IF Head(text) = 58 THEN <<piece>> \o split_colon(Tail(text), <<>>)
    ELSE split_colon(Tail(text), Append(piece, Head(text)))

\* The texts given where a port is expected: "", "0", "80", "8080", "65535",
\* "65536", "70000", "0080", "+80", "-1", " 80", "80a", "abc".
PortTexts ==
    { <<>>, <<48>>, <<56, 48>>, <<56, 48, 56, 48>>, <<54, 53, 53, 51, 53>>,
      <<54, 53, 53, 51, 54>>, <<55, 48, 48, 48, 48>>, <<48, 48, 56, 48>>,
      <<43, 56, 48>>, <<45, 49>>, <<32, 56, 48>>, <<56, 48, 97>>, <<97, 98, 99>> }

\* The hosts "localhost" and "h".
HostTexts == { <<108, 111, 99, 97, 108, 104, 111, 115, 116>>, <<104>> }

\* The addresses given to the client: a host alone, host:port, and
\* host:port:port.
AddrTexts ==
    HostTexts
      \cup {h \o <<58>> \o t : h \in HostTexts, t \in PortTexts}
      \cup {<<104, 58>> \o t \o <<58, 56, 48>> : t \in {<<56, 48>>, <<97, 98, 99>>}}

\* "localhost:8080"
DefaultAddr ==
    <<108, 111, 99, 97, 108, 104, 111, 115, 116, 58, 56, 48, 56, 48>>

\* std::env::args(): the program name, then nothing, or a command, or a
\* command and one more argument.
ArgLists ==
    {<<"streamchat">>}
      \cup {<<"streamchat", cmd>> : cmd \in {"server", "client", "serve"}}
      \cup {<<"streamchat", "server", t>> : t \in PortTexts}
      \cup {<<"streamchat", "client", a>> : a \in AddrTexts}
      \cup {<<"streamchat", "serve", <<56, 48>>>>}

MainInit ==
    /\ cli \in {[pc |-> "main", args |-> args, host |-> <<>>, port |-> 0,
                 net |-> <<>>, out |-> <<>>, sessions |-> 0] : args \in ArgLists}
    /\ me = MeIdle
    /\ kg = KgIdle
    /\ dj = DjIdle
    /\ pc = [p \in Peers |-> "idle"]
    /\ dh = [p \in Peers |-> NoSession]
    /\ local = [p \in Peers |-> NoLocals]
    /\ stream = [p \in Peers |-> <<>>]
    /\ console = [p \in Peers |-> <<>>]
    /\ hist = [p \in Peers |-> NoHist]
    /\ wire = [p \in Peers |-> <<>>]
    /\ ks_used = {}

\* lines 224-233: no command given
MainUsage ==
    /\ cli.pc = "main"
    /\ Len(cli.args) < 2
    /\ cli' = [cli EXCEPT !.pc = "done", !.out = Append(@, "usage")]
    /\ UNCHANGED <<protoVars, me, kg, dj>>

\* lines 236-242: the port of the server, up to the call of run_server
MainServer ==
    /\ cli.pc = "main"
    /\ Len(cli.args) >= 2
    /\ cli.args[2] = "server"
    /\ cli' = [cli EXCEPT
                 !.pc = "run_server",
                 !.port = IF Len(cli.args) > 2
                          THEN unwrap_or(parse_u16(cli.args[3]), DEFAULT_PORT)
                          ELSE DEFAULT_PORT]
    /\ UNCHANGED <<protoVars, me, kg, dj>>

\* lines 244-254: host and port of the client, up to the call of run_client
MainClient ==
    /\ cli.pc = "main"
    /\ Len(cli.args) >= 2
    /\ cli.args[2] = "client"
    /\ LET addr == IF Len(cli.args) > 2 THEN cli.args[3] ELSE DefaultAddr
           parts == split_colon(addr, <<>>)
       IN  cli' = [cli EXCEPT
                     !.pc = "run_client",
                     !.host = parts[1],
                     !.port = unwrap_or(IF Len(parts) >= 2 THEN parse_u16(parts[2]) ELSE None,
                                        DEFAULT_PORT)]
    /\ UNCHANGED <<protoVars, me, kg, dj>>

\* lines 256-258: any other command
MainUnknown ==
    /\ cli.pc = "main"
    /\ Len(cli.args) >= 2
    /\ cli.args[2] \notin {"server", "client"}
    /\ cli' = [cli EXCEPT !.pc = "done", !.out = Append(@, "unknown command")]
    /\ UNCHANGED <<protoVars, me, kg, dj>>

\* lines 193-197: TcpListener::bind, which the system grants or refuses; the
\* expect panics when it is refused
RunServerBind ==
    /\ cli.pc = "run_server"
    /\ \E granted \in BOOLEAN :
         cli' = [cli EXCEPT
                   !.net = Append(@, [op |-> "bind", port |-> cli.port]),
                   !.pc = IF granted THEN "listening" ELSE "panicked"]
    /\ UNCHANGED <<protoVars, me, kg, dj>>

\* lines 199-203: the first connection comes in and handle_client is called
RunServerAccept ==
    /\ cli.pc = "listening"
    /\ cli' = [cli EXCEPT !.pc = "handle_client", !.sessions = @ + 1]
    /\ UNCHANGED <<protoVars, me, kg, dj>>

\* lines 210-218: TcpStream::connect, after which handle_client is called, or
\* the error is printed
RunClientConnect ==
    /\ cli.pc = "run_client"
    /\ \E connected \in BOOLEAN :
         cli' = [cli EXCEPT
                   !.net = Append(@, [op |-> "connect", host |-> cli.host, port |-> cli.port]),
                   !.pc = IF connected THEN "handle_client" ELSE "done",
                   !.sessions = IF connected THEN @ + 1 ELSE @,
                   !.out = IF connected THEN @ ELSE Append(@, "error")]
    /\ UNCHANGED <<protoVars, me, kg, dj>>

MainNext ==
    \/ MainUsage
    \/ MainServer
    \/ MainClient
    \/ MainUnknown
    \/ RunServerBind
    \/ RunServerAccept
    \/ RunClientConnect

MainSpec == MainInit /\ [][MainNext]_vars

(***************************************************************************)
(* hexpath (src/rust_04/main.rs): Grid::dijkstra                            *)
(*                                                                         *)
(* Pos(row, col) is <<row, col>>, counted from 0 as in the source.  The     *)
(* costs stay far below 2^32 on the grids of the model.                     *)
(***************************************************************************)

MaxHeight == 2
MaxWidth == 2
MaxCell == 2

\* The rectangular grids of Grid::from_file and Grid::generate_random, of one
\* row and one column at least.
Grids ==
    UNION {[1..h -> [1..w -> 0..MaxCell]] : h \in 1..MaxHeight, w \in 1..MaxWidth}

\* usize::saturating_sub(1)
saturating_pred(n) == IF n = 0 THEN 0 ELSE n - 1

\* Grid::get, lines 144-150
get(grid, pos) ==
    IF pos[1] < grid.height /\ pos[2] < grid.width
    THEN Some(grid.cells[pos[1] + 1][pos[2] + 1])
    ELSE None

\* Grid::neighbors, lines 152-171: up, down, left, right, those kept that lie
\* in the grid.  In row 0 and in column 0 the position itself is among them.
neighbors(grid, pos) ==
    LET row == pos[1]
        col == pos[2]
        directions == << <<saturating_pred(row), col>>, <<row + 1, col>>,
                         <<row, saturating_pred(col)>>, <<row, col + 1>> >>
    IN  SelectSeq(directions, LAMBDA d : d[1] < grid.height /\ d[2] < grid.width)

\* State::cmp, lines 49-57, as self > other.  With find_max the comparison of
\* the costs is turned around; without it, it is turned around twice.
StateGreater(self, other) ==
    IF self.find_max THEN other.cost > self.cost
    ELSE ~(other.cost >= self.cost)

\* BinaryHeap::pop gives an element that no other is greater than; which of
\* several equal ones is left open here.
HeapTops(heap) == {top \in heap : \A other \in heap : ~StateGreater(other, top)}

\* lines 209-238: the neighbours of pos taken one after the other
RECURSIVE Relax(_, _, _, _, _, _)
Relax(grid, find_max, cost, pos, nbrs, st) ==
    IF Len(nbrs) = 0 THEN st
    ELSE LET next_pos == Head(nbrs)
             next_cost_byte == unwrap(get(grid, next_pos))
             new_cost == IF find_max THEN Max(cost, next_cost_byte)
                         ELSE cost + next_cost_byte
             should_update == IF st.dist[next_pos] # None
                              THEN new_cost < unwrap(st.dist[next_pos])
                              ELSE TRUE
         IN  Relax(grid, find_max, cost, pos, Tail(nbrs),
                   IF should_update
                   THEN [dist |-> [st.dist EXCEPT ![next_pos] = Some(new_cost)],
                         parent |-> [st.parent EXCEPT ![next_pos] = Some(pos)],
                         heap |-> st.heap \cup {[cost |-> new_cost, pos |-> next_pos,
                                                 find_max |-> find_max]}]
                   ELSE st)

\* lines 197-203: from the end back along the parents, before the reverse
RECURSIVE ParentChain(_, _)
ParentChain(parent, current) ==
    IF parent[current] = None THEN <<current>>
    ELSE <<current>> \o ParentChain(parent, unwrap(parent[current]))

reverse(path) == AsSeq([i \in 1..Len(path) |-> path[Len(path) + 1 - i]])

Positions(grid) == (0..(grid.height - 1)) \X (0..(grid.width - 1))

DijkstraInit ==
    /\ dj \in {[pc |-> "called",
                grid |-> [cells |-> cells, width |-> Len(cells[1]), height |-> Len(cells)],
                find_max |-> find_max] : cells \in Grids, find_max \in BOOLEAN}
    /\ me = MeIdle
    /\ kg = KgIdle
    /\ cli = CliIdle
    /\ pc = [p \in Peers |-> "idle"]
    /\ dh = [p \in Peers |-> NoSession]
    /\ local = [p \in Peers |-> NoLocals]
    /\ stream = [p \in Peers |-> <<>>]
    /\ console = [p \in Peers |-> <<>>]
    /\ hist = [p \in Peers |-> NoHist]
    /\ wire = [p \in Peers |-> <<>>]
    /\ ks_used = {}

\* lines 174-186: start, end, and the start pushed with cost 0
DijkstraEnter ==
    /\ dj.pc = "called"
    /\ LET start == <<0, 0>>
       IN  dj' = [pc |-> "loop",
                  grid |-> dj.grid,
                  find_max |-> dj.find_max,
                  end |-> <<dj.grid.height - 1, dj.grid.width - 1>>,
                  dist |-> [pos \in Positions(dj.grid) |->
                              IF pos = start THEN Some(0) ELSE None],
                  parent |-> [pos \in Positions(dj.grid) |-> None],
                  heap |-> {[cost |-> 0, pos |-> start, find_max |-> dj.find_max]},
                  popped |-> 0]
    /\ UNCHANGED <<protoVars, me, kg, cli>>

\* lines 190-245: one turn of the loop on an element that is not the end
DijkstraExplore ==
    /\ dj.pc = "loop"
    /\ \E top \in HeapTops(dj.heap) :
         /\ top.pos # dj.end
         /\ LET rest == [dist |-> dj.dist, parent |-> dj.parent,
                         heap |-> dj.heap \ {top}]
                st == IF dj.dist[top.pos] # None /\ top.cost > unwrap(dj.dist[top.pos])
                      THEN rest
                      ELSE Relax(dj.grid, dj.find_max, top.cost, top.pos,
                                 neighbors(dj.grid, top.pos), rest)
            IN  dj' = [dj EXCEPT !.dist = st.dist, !.parent = st.parent,
                                 !.heap = st.heap, !.popped = @ + 1]
    /\ UNCHANGED <<protoVars, me, kg, cli>>

\* lines 190-207: the end comes off the heap and the path to it is returned
\* with the cost it was pushed with; line 247 when the heap is empty
DijkstraReturn ==
    /\ dj.pc = "loop"
    /\ IF dj.heap = {}
       THEN dj' = [pc |-> "returned", grid |-> dj.grid, find_max |-> dj.find_max,
                   path |-> <<>>, cost |-> 0]
       ELSE \E top \in HeapTops(dj.heap) :
              /\ top.pos = dj.end
              /\ dj' = [pc |-> "returned", grid |-> dj.grid, find_max |-> dj.find_max,
                        path |-> reverse(ParentChain(dj.parent, top.pos)),
                        cost |-> top.cost]
    /\ UNCHANGED <<protoVars, me, kg, cli>>

DijkstraNext == DijkstraEnter \/ DijkstraExplore \/ DijkstraReturn

DijkstraSpec == DijkstraInit /\ [][DijkstraNext]_vars

(***************************************************************************)
(* Properties                                                              *)
(***************************************************************************)

Established(p) == dh[p].shared_secret # None

HandshakeComplete(p) ==
    hist[p].pub_written /\ hist[p].pub_read /\ Established(p)

RECURSIVE ToNat(_)
ToNat(x) == IF Len(x) = 0 THEN 0 ELSE x[1] + (256 * ToNat(Tail(x)))

\* base^e as an integer of as many limbs as it takes.
RECURSIVE ExactPow(_, _)
ExactPow(base, e) == IF e = 0 THEN <<1>> ELSE Mul(ExactPow(base, e - 1), base)

\* C2: mod_exp(base, exp, p) is the remainder of the integer base^exp by p.
\* In every pass of the loop result * base^exp is congruent to the power
\* asked for and result and base are below p, so no product was truncated.
C2_ModExpIsExact ==
    /\ me.pc = "loop" =>
         /\ Less(me.s.result, DH_P, 8)
         /\ Less(me.s.base, DH_P, 8)
         /\ Rem(Mul(me.s.result, ExactPow(me.s.base, ToNat(me.s.exp))), DH_P)
              = Rem(ExactPow(me.base, me.exp), DH_P)
    /\ me.pc = "done" =>
         /\ me.s.result = Rem(ExactPow(me.base, me.exp), DH_P)
         /\ me.s.result = mod_exp(me.base, FromNat(me.exp, 8), DH_P)

\* mod_exp has returned the power of a base whose square exceeds 64 bits.
C2_Witness ==
    /\ me.pc = "done"
    /\ me.exp >= 2
    /\ ~Less(me.base, Pow2_32, 8)
    /\ ~IsZero(me.s.result)

\* C3: every non-empty line a peer reads after the handshake is encrypted,
\* sent as one frame and decrypted by the other peer to the bytes typed: no
\* peer ends at the lines that print the first four keystream bytes, and a
\* peer that has taken a frame off the stream shows the line it was made from.
C3_EveryLineIsDelivered ==
    \A p \in Peers :
      /\ hist[p].panic_at \notin {"print_key", "print_recv"}
      /\ pc[p] \in {"encrypt", "send_len", "send_cipher"} =>
           /\ local[p].message # <<>>
      /\ pc[p] \in {"send_len", "send_cipher"} =>
           /\ Len(local[p].keystream) = Len(local[p].message)
      /\ pc[p] = "read_line" /\ hist[p].frames_rcvd > 0 =>
           /\ local[p].recv_plain = hist[p].rcvd_frame.plain
           /\ console[p] = from_utf8_lossy(hist[p].rcvd_frame.plain)

\* Both private keys are 1, the secret is 2, a peer has read "hi" and has
\* ended at line 156 with nothing of the frame written.
C3_Witness ==
    \E p \in Peers :
      /\ \A q \in Peers : dh[q].private_key = One64
      /\ local[p].secret = FromNat(2, 8)
      /\ local[p].message = <<104, 105>>
      /\ local[p].keystream = generate_keystream(FromNat(2, 8), 2)
      /\ pc[p] = "panicked"
      /\ hist[p].panic_at = "print_key"
      /\ hist[p].frames_sent = 0
      /\ wire[Other(p)] = <<>>

\* A step in which p writes a frame, or part of it, to the stream.
FrameWrite(p) ==
    \/ Len(wire'[Other(p)]) > Len(wire[Other(p)])
    \/ hist'[p].frames_sent > hist[p].frames_sent

\* A step in which p reads a frame, or part of it, from the stream.
FrameRead(p) ==
    \/ Len(wire'[p]) < Len(wire[p])
    \/ hist'[p].frames_rcvd > hist[p].frames_rcvd

\* C4: a peer writes or reads frame bytes only with its handshake complete
\* (public value written, the peer's read, secret computed), and it reads a
\* frame only when it has sent one more frame than it has received.
C4_HandshakeThenSendThenReceive ==
    [][\A p \in Peers :
         /\ FrameWrite(p) \/ FrameRead(p) => HandshakeComplete(p)
         /\ FrameRead(p) => hist[p].frames_sent = hist[p].frames_rcvd + 1
         /\ FrameWrite(p) => hist[p].frames_sent = hist[p].frames_rcvd]_vars

\* A peer has received a frame in its second turn.
C4_Witness ==
    \E p \in Peers : hist[p].frames_sent = 2 /\ hist[p].frames_rcvd = 2

\* A peer waits in the handshake for bytes that are not there.
BlockedInHandshake(p) == pc[p] = "recv_public" /\ Len(stream[p]) < 8

\* C5: the two peers are never both blocked inside the handshake, and under
\* fair scheduling both eventually hold the shared secret.
C5_HandshakeCompletes ==
    /\ [](~(\A p \in Peers : BlockedInHandshake(p)))
    /\ <>(\A p \in Peers : HandshakeComplete(p))

\* Both peers are through the handshake, each with the other's public value.
C5_Witness ==
    \A p \in Peers :
      /\ HandshakeComplete(p)
      /\ local[p].their_public_key = dh[Other(p)].public_key
      /\ pc[p] = "read_line"

\* C6: a peer has sent as many frames as it has received, or one more; it
\* reads a console line and starts a frame only when the two numbers are
\* equal.
C6_Lockstep ==
    /\ [](\A p \in Peers : hist[p].frames_sent - hist[p].frames_rcvd \in {0, 1})
    /\ [][\A p \in Peers :
            /\ hist'[p].lines_read > hist[p].lines_read =>
                 hist[p].frames_sent = hist[p].frames_rcvd
            /\ hist'[p].frames_sent > hist[p].frames_sent =>
                 hist[p].frames_sent = hist[p].frames_rcvd]_vars

\* A peer has sent its second frame and waits for the second answer.
C6_Witness ==
    \E p \in Peers :
      /\ hist[p].frames_sent = 2
      /\ hist[p].frames_rcvd = 1
      /\ pc[p] = "recv_len"

\* C7: a step that reads a console line of which nothing is left after the
\* trim changes neither stream nor the frames on them, neither the session
\* nor the secret nor the frame counts, and leaves the peer at the read of
\* the next line.
C7_EmptyLineIsSkipped ==
    [][\A p \in Peers :
         hist'[p].lines_read > hist[p].lines_read /\ local'[p].message = <<>> =>
           /\ stream' = stream
           /\ wire' = wire
           /\ dh' = dh
           /\ local'[p].secret = local[p].secret
           /\ hist'[p].frames_sent = hist[p].frames_sent
           /\ hist'[p].frames_rcvd = hist[p].frames_rcvd
           /\ ks_used' = ks_used
           /\ pc'[p] = "read_line"]_vars

\* A peer has read the line "\n" and is back at the read of the next line.
C7_Witness ==
    \E p \in Peers :
      /\ pc[p] = "read_line"
      /\ hist[p].lines_read >= 1
      /\ local[p].input = <<10>>
      /\ local[p].message = <<>>

\* C8: generate_keystream(s, n) has n bytes and is the first n bytes of
\* generate_keystream(s, n + k); the bytes the generator has put out so far
\* are the first bytes of it, and the bytes returned are all of it.
C8_KeystreamPrefix ==
    kg.pc # "idle" =>
      LET keystream == generate_keystream(kg.seed, kg.length)
      IN  /\ Len(keystream) = kg.length
          /\ \A k \in 0..MaxKsExtra :
               /\ Len(generate_keystream(kg.seed, kg.length + k)) = kg.length + k
               /\ keystream = SubSeq(generate_keystream(kg.seed, kg.length + k), 1, kg.length)
          /\ kg.out = SubSeq(keystream, 1, Len(kg.out))
          /\ kg.pc = "done" => kg.out = keystream

\* A keystream of three bytes or more has been returned.
C8_Witness ==
    /\ kg.pc = "done"
    /\ kg.length >= 3
    /\ Len(kg.out) = kg.length
    /\ kg.out # Zeros(kg.length)

\* C9: every keystream of the session, made for a line sent or for a frame
\* received, is generate_keystream of the shared secret, so of two of them
\* the shorter is the beginning of the longer and two of one length are equal.
C9_KeystreamRestarts ==
    /\ \A k1, k2 \in ks_used :
         Len(k1) <= Len(k2) => k1 = SubSeq(k2, 1, Len(k1))
    /\ \A p \in Peers :
         /\ pc[p] = "send_len" =>
              local[p].keystream
                = generate_keystream(unwrap(dh[p].shared_secret), Len(local[p].message))
         /\ local[p].keystream \in ks_used \cup {<<>>}
         /\ local[p].recv_keystream \in ks_used \cup {<<>>}

\* A peer in its second turn has made for its line the keystream it made for
\* the frame it received, and has made it for a different line.
C9_Witness ==
    \E p \in Peers :
      /\ pc[p] = "send_len"
      /\ hist[p].frames_rcvd = 1
      /\ local[p].keystream = local[p].recv_keystream
      /\ local[p].message # local[p].recv_plain

\* C10: a frame of 0, 1, 255 or 65536 payload bytes written by lines 161-163
\* is read back by lines 169-172: the length read is the length of the
\* payload, the bytes read are the payload, and once the frame is written
\* and read nothing of it is left on the stream.
C10_FrameRoundTrip ==
    \A p \in Peers :
      /\ pc[p] = "recv_cipher" =>
           /\ local[p].recv_len = Len(hist[p].rcvd_frame.cipher)
           /\ Len(local[p].recv_cipher) = local[p].recv_len
           /\ pc[Other(p)] # "send_cipher" => stream[p] = hist[p].rcvd_frame.cipher
      /\ pc[p] = "decrypt" =>
           /\ local[p].recv_len = Len(hist[p].rcvd_frame.cipher)
           /\ local[p].recv_cipher = hist[p].rcvd_frame.cipher
           /\ stream[p] = <<>>

\* A payload of 255 bytes, not all of them zero, has been read back.
C10_Witness ==
    \E p \in Peers :
      /\ pc[p] = "decrypt"
      /\ local[p].recv_len = 255
      /\ local[p].recv_cipher = local[Other(p)].cipher
      /\ local[p].recv_cipher # Zeros(255)

\* The read p is blocked in cannot get its bytes: the other end is closed.
Truncated(p) ==
    /\ pc[p] \in {"recv_len", "recv_cipher"}
    /\ Terminated(Other(p))
    /\ Len(stream[p]) < Wanted(p)

\* C11: a peer whose read cannot get its bytes because the stream has ended
\* makes one step only, into the panic of the unwrap, which decrypts and
\* shows nothing and writes nothing; a peer that has ended makes no step,
\* so no read is tried again and nothing more is sent or received; and what a
\* peer has decrypted or shown is the whole payload of a frame.
C11_TruncatedReadTerminates ==
    /\ [][\A p \in Peers :
            Truncated(p) =>
              /\ pc'[p] \in {pc[p], "panicked"}
              /\ pc'[p] = "panicked" => hist'[p].panic_at = "read"
              /\ local'[p] = local[p]
              /\ console' = console
              /\ ks_used' = ks_used
              /\ stream'[Other(p)] = stream[Other(p)]
              /\ hist'[p].frames_rcvd = hist[p].frames_rcvd]_vars
    /\ [][\A p \in Peers :
            pc[p] = "panicked" =>
              /\ pc'[p] = "panicked"
              /\ local'[p] = local[p]
              /\ hist'[p] = hist[p]
              /\ console'[p] = console[p]
              /\ Len(stream'[Other(p)]) <= Len(stream[Other(p)])
              /\ Len(stream'[p]) >= Len(stream[p])]_vars
    /\ [](\A p \in Peers :
            /\ hist[p].frames_rcvd = 0 =>
                 local[p].recv_plain = <<>> /\ console[p] = <<>>
            /\ hist[p].frames_rcvd > 0 /\ pc[p] \notin {"recv_cipher", "decrypt", "panicked"} =>
                 /\ local[p].recv_cipher = hist[p].rcvd_frame.cipher
                 /\ local[p].recv_plain = hist[p].rcvd_frame.plain
                 /\ console[p] = from_utf8_lossy(hist[p].rcvd_frame.plain))

\* A peer has read the length 10, found the stream ended before the 10 bytes
\* were there, and has ended with nothing decrypted and nothing shown.
C11_Witness ==
    \E p \in Peers :
      /\ pc[p] = "panicked"
      /\ hist[p].panic_at = "read"
      /\ local[p].recv_len = 10
      /\ hist[p].rcvd_frame = TenFrame
      /\ local[p].recv_cipher = Zeros(10)
      /\ local[p].recv_plain = <<>>
      /\ console[p] = <<>>
      /\ hist[p].frames_rcvd = 0

\* The command line names a port that is no port: the server's argument is
\* not a number up to 65535, or the client's address has no port part or one
\* that is not such a number.
InvalidConfig ==
    /\ cli.pc # "idle"
    /\ Len(cli.args) > 2
    /\ \/ cli.args[2] = "server" /\ parse_u16(cli.args[3]) = None
       \/ /\ cli.args[2] = "client"
          /\ LET parts == split_colon(cli.args[3], <<>>)
             IN  Len(parts) < 2 \/ parse_u16(parts[2]) = None

\* C12: with a port argument that is no port, nothing is bound, nothing is
\* connected to and no session is begun, and the run ends with an error
\* reported.
C12_InvalidConfigIsRejected ==
    InvalidConfig =>
      /\ cli.net = <<>>
      /\ cli.sessions = 0
      /\ cli.pc \in {"main", "done"}
      /\ cli.pc = "done" => cli.out # <<>>

\* The server was started with the argument "abc", is listening on port 8080
\* and has reported nothing.
C12_Witness ==
    /\ cli.pc = "listening"
    /\ cli.args = <<"streamchat", "server", <<97, 98, 99>>>>
    /\ cli.net = <<[op |-> "bind", port |-> DEFAULT_PORT]>>
    /\ cli.out = <<>>

\* Where a session stands.  DHSession::new draws the private key and
\* computes the public value before it returns, so that a session is seen
\* from outside with both or not at all.
Phase(p) ==
    IF pc[p] = "new_session" THEN "Initialized"
    ELSE IF dh[p].shared_secret = None THEN "PublicValueComputed"
    ELSE "Established"

\* C13: a session goes from Initialized to PublicValueComputed to Established
\* and never back; it has no shared secret before the peer's public value has
\* been read; the secret is set in one step, to
\* mod_exp(their_public_key, private_key, p) of the eight bytes read, a number
\* below p; and from then on the secret, and from its construction on the key
\* pair, stay what they are.
C13_SessionLifecycle ==
    /\ [](\A p \in Peers : ~hist[p].pub_read => dh[p].shared_secret = None)
    /\ [][\A p \in Peers :
            \/ Phase(p)' = Phase(p)
            \/ Phase(p) = "Initialized" /\ Phase(p)' = "PublicValueComputed"
            \/ Phase(p) = "PublicValueComputed" /\ Phase(p)' = "Established"]_vars
    /\ [][\A p \in Peers :
            Phase(p) = "PublicValueComputed" /\ Phase(p)' = "Established" =>
              /\ hist[p].pub_read
              /\ local[p].their_public_key = u64_from_le_bytes(local[p].buffer)
              /\ dh'[p].shared_secret
                   = Some(mod_exp(local[p].their_public_key, dh[p].private_key, DH_P))]_vars
    /\ [](\A p \in Peers :
            Phase(p) = "Established" => Less(unwrap(dh[p].shared_secret), DH_P, 8))
    /\ [][\A p \in Peers :
            /\ Phase(p) = "Established" => dh'[p] = dh[p]
            /\ Phase(p) # "Initialized" =>
                 /\ dh'[p].private_key = dh[p].private_key
                 /\ dh'[p].public_key = dh[p].public_key]_vars

\* A peer that was sent the public value 2^64 - 1 holds a secret and has gone
\* on to write a frame.
C13_Witness ==
    \E p \in Peers :
      /\ Phase(p) = "Established"
      /\ local[p].their_public_key = AllOnes64
      /\ dh[p].private_key # One64
      /\ hist[p].frames_sent = 1

\* Two positions next to each other in a row or in a column.
Adjacent(a, b) ==
    \/ a[1] = b[1] /\ (a[2] = b[2] + 1 \/ b[2] = a[2] + 1)
    \/ a[2] = b[2] /\ (a[1] = b[1] + 1 \/ b[1] = a[1] + 1)

\* A path of adjacent cells of the grid from (0,0) to (height-1, width-1).
IsPath(grid, path) ==
    /\ Len(path) >= 1
    /\ path[1] = <<0, 0>>
    /\ path[Len(path)] = <<grid.height - 1, grid.width - 1>>
    /\ \A i \in 1..Len(path) : path[i] \in Positions(grid)
    /\ \A i \in 1..(Len(path) - 1) : Adjacent(path[i], path[i + 1])

\* The least sum of the cells entered on a way of at most `rounds` steps from
\* (0,0), for every position; Unreached(grid), more than any such sum of
\* bytes, where there is none.
Unreached(grid) == (255 * grid.height * grid.width) + 1

RECURSIVE LeastSums(_, _)
LeastSums(grid, rounds) ==
    IF rounds = 0
    THEN [pos \in Positions(grid) |-> IF pos = <<0, 0>> THEN 0 ELSE Unreached(grid)]
    ELSE LET before == LeastSums(grid, rounds - 1)
         IN  [pos \in Positions(grid) |->
                LET into == {before[q] + grid.cells[pos[1] + 1][pos[2] + 1] :
                               q \in {q \in Positions(grid) : Adjacent(q, pos)}}
                IN  Min(before[pos],
                        IF into = {} THEN Unreached(grid)
                        ELSE CHOOSE least \in into : \A m \in into : least <= m)]

\* The minimum over all paths from (0,0) to the last cell; a shortest one
\* enters no cell twice, hence takes fewer steps than there are cells.
MinimumCost(grid) ==
    LeastSums(grid, grid.height * grid.width)[<<grid.height - 1, grid.width - 1>>]

\* C14: with find_max = false, dijkstra returns a path of adjacent cells from
\* (0,0) to (height-1, width-1) and a cost that is the least sum, over all such
\* paths, of the cells entered after the start.
C14_DijkstraReturnsMinimum ==
    dj.pc = "returned" /\ ~dj.find_max =>
      /\ IsPath(dj.grid, dj.path)
      /\ dj.cost = MinimumCost(dj.grid)

\* On the grid 00 01 / 02 01 the search for the minimum has returned the way
\* down and then right with cost 3, where right and then down costs 2.
C14_Witness ==
    /\ dj.pc = "returned"
    /\ ~dj.find_max
    /\ dj.grid.cells = <<<<0, 1>>, <<2, 1>>>>
    /\ dj.path = << <<0, 0>>, <<1, 0>>, <<1, 1>> >>
    /\ dj.cost = 3
    /\ MinimumCost(dj.grid) = 2

\* The frames p has begun to write: those written whole, and the one whose
\* length prefix is out and whose cipher text is not.
FramesBegun(p) == hist[p].frames_sent + (IF pc[p] = "send_cipher" THEN 1 ELSE 0)

\* The frames p has begun to read: those read whole, and the one whose length
\* prefix is read and whose cipher text is not.
FramesTaken(p) == hist[p].frames_rcvd + (IF pc[p] = "recv_cipher" THEN 1 ELSE 0)

\* C15: the numbers of frames the two peers have sent differ by one at most;
\* a peer writes a frame, from its length prefix on, only when the other has
\* sent as many frames as it has itself; and the frames come out of the
\* stream in the order they went in: between two running peers the frames
\* begun, less those still waiting, are the frames taken, and the n-th cipher
\* text read is the n-th written, of the length announced.
C15_AlternationAndOrder ==
    /\ [](\A p \in Peers :
            /\ hist[p].frames_sent - hist[Other(p)].frames_sent \in {-1, 0, 1}
            /\ pc[p] \in {"send_len", "send_cipher"} =>
                 hist[Other(p)].frames_sent >= hist[p].frames_sent
            /\ ~Terminated(p) /\ ~Terminated(Other(p)) =>
                 FramesTaken(p) + Len(wire[p]) = FramesBegun(Other(p)))
    /\ [][\A p \in Peers :
            /\ hist'[p].frames_sent > hist[p].frames_sent =>
                 /\ hist'[p].frames_sent = hist[p].frames_sent + 1
                 /\ hist[Other(p)].frames_sent >= hist[p].frames_sent
            /\ hist'[p].frames_rcvd > hist[p].frames_rcvd =>
                 /\ hist'[p].frames_rcvd = hist[p].frames_rcvd + 1
                 /\ hist[Other(p)].frames_sent >= hist'[p].frames_rcvd
                 /\ local'[p].recv_cipher = hist[p].rcvd_frame.cipher
                 /\ local[p].recv_len = Len(hist[p].rcvd_frame.plain)]_vars

\* A peer has sent two different frames and the other one: the other has read
\* the first of the two while the second waits in the stream.
C15_Witness ==
    \E p \in Peers :
      /\ hist[p].frames_sent = 2
      /\ hist[Other(p)].frames_sent = 1
      /\ hist[Other(p)].frames_rcvd = 1
      /\ Len(wire[Other(p)]) = 1
      /\ wire[Other(p)][1].cipher # hist[Other(p)].rcvd_frame.cipher
      /\ local[Other(p)].recv_cipher = hist[Other(p)].rcvd_frame.cipher

\* C16: a peer whose trimmed line is 1 to 3 bytes long takes one step more,
\* which ends it at the line that prints the keystream, and in that step and
\* after it writes nothing to the stream; so that every frame begun, waiting
\* or taken has a payload of 4 bytes at least, and so has every length prefix
\* written.
C16_ShortLineNeverWritten ==
    /\ [][\A p \in Peers :
            pc[p] = "encrypt" /\ Len(local[p].message) \in 1..3 =>
              /\ pc'[p] \in {"encrypt", "panicked"}
              /\ pc'[p] = "panicked" =>
                   /\ hist'[p].panic_at = "print_key"
                   /\ hist'[p].frames_sent = hist[p].frames_sent
              /\ Len(stream'[Other(p)]) <= Len(stream[Other(p)])
              /\ Len(wire'[Other(p)]) <= Len(wire[Other(p)])]_vars
    /\ [][\A p \in Peers :
            Len(stream'[Other(p)]) > Len(stream[Other(p)]) /\ pc[p] = "send_len" =>
              /\ Len(local[p].message) >= 4
              /\ stream'[Other(p)]
                   = stream[Other(p)] \o u32_to_le_bytes(Len(local[p].message))
              /\ u32_from_le_bytes(u32_to_le_bytes(Len(local[p].message))) >= 4]_vars
    /\ [](\A p \in Peers :
            /\ hist[p].panic_at = "print_key" =>
                 /\ Len(local[p].message) \in 1..3
                 /\ pc[p] = "panicked"
            /\ pc[p] \in {"send_len", "send_cipher"} => Len(local[p].message) >= 4
            /\ \A i \in 1..Len(wire[p]) :
                 Len(wire[p][i].plain) >= 4 /\ Len(wire[p][i].cipher) >= 4
            /\ FramesTaken(p) > 0 => Len(hist[p].rcvd_frame.cipher) >= 4
            /\ hist[p].panic_at # "print_recv")

\* A peer has sent "ping" or "pong", read the answer, read "hi" as its second
\* line and ended at line 156; nothing is left in the stream to the other.
C16_Witness ==
    \E p \in Peers :
      /\ hist[p].lines_read = 2
      /\ hist[p].frames_sent = 1
      /\ hist[p].frames_rcvd = 1
      /\ local[p].message = <<104, 105>>
      /\ Len(local[p].cipher) = 2
      /\ hist[p].panic_at = "print_key"
      /\ stream[Other(p)] = <<>>
      /\ wire[Other(p)] = <<>>
      /\ hist[Other(p)].frames_rcvd = 1

====
